---- MODULE Spec2Model ----
(***************************************************************************)
(* LinqService<T> (src/linq/service/linqService.ts): an eager query        *)
(* wrapper over a caller-supplied array.  The wrapper stores the array by  *)
(* reference (this.data = data); every operator reads this.data and        *)
(* returns a fresh result or throws Error("InvalidOperationException").    *)
(*                                                                         *)
(* Elements are numbers 0..MaxElem.  Predicates and selectors, which the   *)
(* caller passes as closures, are drawn from small families of total, pure *)
(* functions described as data.  JavaScript numbers are IEEE-754 doubles:  *)
(* sums of the small integers used here are exact and are kept as          *)
(* integers, the quotient computed by average(), which is not exact in     *)
(* general, is a Double (sign, exponent, 53-bit significand).              *)
(***************************************************************************)
EXTENDS Integers, Sequences, FiniteSets

VARIABLES
    arr,     \* contents of the caller's array object; this.data refers to it
    orig,    \* history: contents of the array when from(data) was called
    op,      \* the last step: "from", the operator called, or "write" (a
             \* write of the caller to its array)
    arg,     \* the operator's argument (predicate, selector, default value)
    result   \* what the operator returned or threw

vars == <<arr, orig, op, arg, result>>

----------------------------------------------------------------------------
(* Bounds *)

MaxLen == 4
MaxElem == 2
MutMaxLen == 2
MutMaxElem == 1
NumMaxLen == 7

Elems == 0..MaxElem

SeqsUpTo(S, n) == UNION {[1..m -> S] : m \in 0..n}

\* Element values of the numeric specification: two of the values the
\* repository's Sum/Average/Max/Min tests use ([1, 2, 3, 4, 5]).
NumElems == {2, 5}

----------------------------------------------------------------------------
(* Closures passed by the caller, as data *)

\* (n) => n > c, (n) => n % 2 === 0, and their negations
Predicates ==
    [kind : {"gt"}, c : 0..(MaxElem - 1), neg : BOOLEAN]
        \cup [kind : {"even"}, c : {0}, neg : BOOLEAN]

Holds(p, x) ==
    LET b == IF p.kind = "gt" THEN x > p.c ELSE x % 2 = 0
    IN  IF p.neg THEN ~b ELSE b

Not(p) == [p EXCEPT !.neg = ~p.neg]

\* (n) => n, (n) => n % 2, (n) => -n, (n) => 1
Selectors == {"id", "mod2", "neg", "one"}

Apply(f, x) ==
    CASE f = "id"   -> x
      [] f = "mod2" -> x % 2
      [] f = "neg"  -> 0 - x
      [] f = "one"  -> 1

----------------------------------------------------------------------------
(* Results *)

Ret(v) == [threw |-> FALSE, val |-> v]

InvalidOperation == [threw |-> TRUE, val |-> "InvalidOperationException"]

----------------------------------------------------------------------------
(* The wrapper's field *)

\* A mutant: the constructor copies the array (this.data = [...data]).
DataCopied == orig

\* this.data: the constructor stores the caller's reference, so the field
\* denotes the caller's array object itself.
Data == arr

----------------------------------------------------------------------------
(* Array.prototype.filter / map / some / every *)

RECURSIVE filterMissing(_, _)
\* A mutant: filter that stops at the first element failing the predicate.
filterMissing(d, p) ==
    IF d = <<>> \/ ~Holds(p, Head(d)) THEN <<>>
    ELSE <<Head(d)>> \o filterMissing(Tail(d), p)

RECURSIVE where(_, _)
where(d, p) ==
    IF d = <<>> THEN <<>>
    ELSE IF Holds(p, Head(d)) THEN <<Head(d)>> \o where(Tail(d), p)
    ELSE where(Tail(d), p)

select(d, f) == [i \in 1..Len(d) |-> Apply(f, d[i])]

\* A mutant: some() on an empty array answering true.
anyEmptyTrue(d, p) == d = <<>> \/ \E i \in 1..Len(d) : Holds(p, d[i])

any(d, p) == \E i \in 1..Len(d) : Holds(p, d[i])

all(d, p) == \A i \in 1..Len(d) : Holds(p, d[i])

----------------------------------------------------------------------------
(* first / firstOrDefault / count *)

first(d) == IF Len(d) = 0 THEN InvalidOperation ELSE Ret(d[1])

firstOrDefault(d, defaultValue) == IF Len(d) > 0 THEN d[1] ELSE defaultValue

count(d) == Len(d)

----------------------------------------------------------------------------
(* Array.prototype.sort with the comparators of orderBy / orderByDescending *)

\* orderBy:           keyA > keyB ? 1 : keyA < keyB ? -1 : 0
\* orderByDescending: keyA < keyB ? 1 : keyA > keyB ? -1 : 0
compare(dir, k, a, b) ==
    LET keyA == Apply(k, a)
        keyB == Apply(k, b)
    IN  IF dir = "asc"
        THEN (IF keyA > keyB THEN 1 ELSE IF keyA < keyB THEN -1 ELSE 0)
        ELSE (IF keyA < keyB THEN 1 ELSE IF keyA > keyB THEN -1 ELSE 0)

RECURSIVE insertUnstable(_, _, _, _)
\* A mutant: an unstable sort, which puts an element before its equals.
insertUnstable(sorted, x, dir, k) ==
    IF sorted = <<>> THEN <<x>>
    ELSE IF compare(dir, k, Head(sorted), x) >= 0 THEN <<x>> \o sorted
    ELSE <<Head(sorted)>> \o insertUnstable(Tail(sorted), x, dir, k)

RECURSIVE insert(_, _, _, _)
\* One step of a stable sort: x, which came after every element of sorted,
\* goes before the first element the comparator puts after it.
insert(sorted, x, dir, k) ==
    IF sorted = <<>> THEN <<x>>
    ELSE IF compare(dir, k, Head(sorted), x) > 0 THEN <<x>> \o sorted
    ELSE <<Head(sorted)>> \o insert(Tail(sorted), x, dir, k)

RECURSIVE sort(_, _, _)
\* Array.prototype.sort(comparefn): a stable comparison sort (ECMAScript 2019)
sort(s, dir, k) ==
    IF s = <<>> THEN <<>>
    ELSE insert(sort(SubSeq(s, 1, Len(s) - 1), dir, k), s[Len(s)], dir, k)

Reverse(s) == [i \in 1..Len(s) |-> s[Len(s) + 1 - i]]

orderBy(d, k) == sort(d, "asc", k)

\* A mutant: descending order obtained by reversing the ascending one.
orderByDescendingReversed(d, k) == Reverse(sort(d, "asc", k))

orderByDescending(d, k) == sort(d, "desc", k)

\* A mutant: this.data.sort(...), which sorts the wrapped array itself.
dataSortedInPlace(d, dir, k) == sort(d, dir, k)

\* The wrapped array after orderBy / orderByDescending: sort() reorders its
\* receiver, and the receiver is the copy [...this.data].
dataAfterSort(d, dir, k) == d

----------------------------------------------------------------------------
(* distinct: [...new Set(this.data)] *)

RECURSIVE distinctAdjacent(_)
\* A mutant: only a duplicate that directly follows its equal is dropped.
distinctAdjacent(d) ==
    IF d = <<>> THEN <<>>
    ELSE LET r == distinctAdjacent(SubSeq(d, 1, Len(d) - 1))
             x == d[Len(d)]
         IN  IF r # <<>> /\ r[Len(r)] = x THEN r ELSE Append(r, x)

RECURSIVE distinct(_)
\* A Set keeps its values in insertion order and ignores a value it holds.
distinct(d) ==
    IF d = <<>> THEN <<>>
    ELSE LET r == distinct(SubSeq(d, 1, Len(d) - 1))
             x == d[Len(d)]
         IN  IF \E i \in 1..Len(r) : r[i] = x THEN r ELSE Append(r, x)

----------------------------------------------------------------------------
(* groupBy: a Map, as the sequence of its entries in insertion order *)

RECURSIVE groupByOverwrite(_, _)
\* A mutant: map.set(key, [item]) on every item, which drops the earlier
\* items of the group.
groupByOverwrite(d, k) ==
    IF d = <<>> THEN <<>>
    ELSE LET map  == groupByOverwrite(SubSeq(d, 1, Len(d) - 1), k)
             item == d[Len(d)]
             key  == Apply(k, item)
         IN  IF \E i \in 1..Len(map) : map[i].key = key
             THEN [i \in 1..Len(map) |->
                     IF map[i].key = key
                     THEN [map[i] EXCEPT !.items = <<item>>]
                     ELSE map[i]]
             ELSE Append(map, [key |-> key, items |-> <<item>>])

RECURSIVE groupBy(_, _)
groupBy(d, k) ==
    IF d = <<>> THEN <<>>
    ELSE LET map  == groupBy(SubSeq(d, 1, Len(d) - 1), k)
             item == d[Len(d)]
             key  == Apply(k, item)
         IN  IF \E i \in 1..Len(map) : map[i].key = key
             THEN [i \in 1..Len(map) |->
                     IF map[i].key = key
                     THEN [map[i] EXCEPT !.items = Append(@, item)]
                     ELSE map[i]]
             ELSE Append(map, [key |-> key, items |-> <<item>>])

----------------------------------------------------------------------------
(* JavaScript numbers: IEEE-754 binary64, round to nearest, ties to even.  *)
(* A Double is [sign, exp, mant], mant = <<m0, m1, m2, m3, m4>>: m0 is the *)
(* leading bit of the significand and m1..m4 are its 52 fraction bits as   *)
(* four limbs of 13 bits, most significant first.  The value is            *)
(*   (-1)^sign * (m0 + m1/B + m2/B^2 + m3/B^3 + m4/B^4) * 2^exp,  B = 2^13 *)
(* and m0 = 1 unless the value is 0.  The numbers met here are integers    *)
(* below B and their quotients by small counts: far from the ends of the   *)
(* exponent range, so no subnormal, infinity or NaN arises.                *)

LimbBase == 2^13

DoubleZero == [sign |-> 0, exp |-> 0, mant |-> <<0, 0, 0, 0, 0>>]

Abs(x) == IF x < 0 THEN 0 - x ELSE x

RECURSIVE Log2(_)
\* the position of the leading bit of n >= 1
Log2(n) == IF n < 2 THEN 0 ELSE 1 + Log2(n \div 2)

RECURSIVE Incremented(_, _)
\* the limbs m with one unit added to limb i, carrying to the left
Incremented(m, i) ==
    IF i = 1 THEN [m EXCEPT ![1] = @ + 1]
    ELSE IF m[i] + 1 < LimbBase THEN [m EXCEPT ![i] = @ + 1]
    ELSE Incremented([m EXCEPT ![i] = 0], i - 1)

\* The Double nearest to (-1)^sign * (mant + rest) * 2^exp, where rest is
\* below one unit of the last place: "zero", "below" (less than half a
\* unit), "half" or "above"; a tie goes to the even significand.
Rounded(sign, exp, mant, rest) ==
    LET up == rest = "above" \/ (rest = "half" /\ mant[5] % 2 = 1)
        inc == Incremented(mant, 5)
    IN  IF ~up THEN [sign |-> sign, exp |-> exp, mant |-> mant]
        ELSE IF inc[1] = 2
             THEN [sign |-> sign, exp |-> exp + 1, mant |-> <<1, 0, 0, 0, 0>>]
             ELSE [sign |-> sign, exp |-> exp, mant |-> inc]

\* Number(x) for an integer x with |x| < B: exact
FromInt(x) ==
    IF x = 0 THEN DoubleZero
    ELSE LET a == Abs(x)
             k == Log2(a)
         IN  [sign |-> IF x < 0 THEN 1 ELSE 0,
              exp  |-> k,
              mant |-> <<1, (a % (2^k)) * (LimbBase \div (2^k)), 0, 0, 0>>]

RECURSIVE Scaled(_, _, _)
\* <<a', d', e>> with a / d = (a' / d') * 2^e and d' <= a' < 2 d'
Scaled(a, d, e) ==
    IF a >= 2 * d THEN Scaled(a, 2 * d, e + 1)
    ELSE IF a < d THEN Scaled(2 * a, d, e - 1)
    ELSE <<a, d, e>>

\* x / n in double arithmetic, for integers x and n > 0 below B: long
\* division, one limb at a time, then rounding by the remainder
Divide(x, n) ==
    IF x = 0 THEN DoubleZero
    ELSE LET t  == Scaled(Abs(x), n, 0)
             d  == t[2]
             r0 == t[1] - d
             m1 == (r0 * LimbBase) \div d
             r1 == (r0 * LimbBase) % d
             m2 == (r1 * LimbBase) \div d
             r2 == (r1 * LimbBase) % d
             m3 == (r2 * LimbBase) \div d
             r3 == (r2 * LimbBase) % d
             m4 == (r3 * LimbBase) \div d
             r4 == (r3 * LimbBase) % d
             rest == IF r4 = 0 THEN "zero"
                     ELSE IF 2 * r4 < d THEN "below"
                     ELSE IF 2 * r4 = d THEN "half"
                     ELSE "above"
         IN  Rounded(IF x < 0 THEN 1 ELSE 0, t[3], <<1, m1, m2, m3, m4>>, rest)

\* x * n in double arithmetic, for a Double x and an integer 0 < n < B / 2:
\* the exact product limb by limb, shifted right until its leading limb is
\* 1, then rounded by the bits shifted out
Times(x, n) ==
    IF x = DoubleZero THEN DoubleZero
    ELSE LET t4 == x.mant[5] * n
             t3 == x.mant[4] * n + t4 \div LimbBase
             t2 == x.mant[3] * n + t3 \div LimbBase
             t1 == x.mant[2] * n + t2 \div LimbBase
             t0 == x.mant[1] * n + t1 \div LimbBase
             k  == Log2(t0)
             s  == 2^k
             up == LimbBase \div s
             out == (t4 % LimbBase) % s
             rest == IF out = 0 THEN "zero"
                     ELSE IF 2 * out < s THEN "below"
                     ELSE IF 2 * out = s THEN "half"
                     ELSE "above"
         IN  Rounded(x.sign, x.exp + k,
                     << t0 \div s,
                        (t0 % s) * up + (t1 % LimbBase) \div s,
                        ((t1 % LimbBase) % s) * up + (t2 % LimbBase) \div s,
                        ((t2 % LimbBase) % s) * up + (t3 % LimbBase) \div s,
                        ((t3 % LimbBase) % s) * up + (t4 % LimbBase) \div s >>,
                     rest)

----------------------------------------------------------------------------
(* average / max / min / sum *)

RECURSIVE reduceAdd(_)
\* values.reduce((a, b) => a + b, 0)
reduceAdd(values) ==
    IF values = <<>> THEN 0
    ELSE reduceAdd(SubSeq(values, 1, Len(values) - 1)) + values[Len(values)]

RECURSIVE mathMax(_)
\* Math.max(...values) of a non-empty argument list
mathMax(values) ==
    IF Len(values) = 1 THEN values[1]
    ELSE LET m == mathMax(Tail(values))
         IN  IF values[1] > m THEN values[1] ELSE m

RECURSIVE mathMin(_)
\* Math.min(...values) of a non-empty argument list
mathMin(values) ==
    IF Len(values) = 1 THEN values[1]
    ELSE LET m == mathMin(Tail(values))
         IN  IF values[1] < m THEN values[1] ELSE m

\* A mutant: the empty sequence averaging to 0 instead of throwing.
averageEmptyZero(d, selector) ==
    LET values == select(d, selector)
    IN  IF Len(d) = 0 THEN Ret(DoubleZero)
        ELSE Ret(Divide(reduceAdd(values), Len(values)))

\* A mutant: Math.floor(sum / values.length), an integer average.
averageFloored(d, selector) ==
    LET values == select(d, selector)
    IN  IF Len(d) = 0 THEN InvalidOperation
        ELSE Ret(FromInt(reduceAdd(values) \div Len(values)))

average(d, selector) ==
    IF Len(d) = 0 THEN InvalidOperation
    ELSE LET values == select(d, selector)
             sum == reduceAdd(values)
         IN  Ret(Divide(sum, Len(values)))

max(d, selector) ==
    IF Len(d) = 0 THEN InvalidOperation
    ELSE Ret(mathMax(select(d, selector)))

min(d, selector) ==
    IF Len(d) = 0 THEN InvalidOperation
    ELSE Ret(mathMin(select(d, selector)))

sum(d, selector) ==
    LET values == select(d, selector)
    IN  IF Len(values) = 0 THEN 0 ELSE reduceAdd(values)

----------------------------------------------------------------------------
(* Construction: LinqService.from(data) *)

From(data) ==
    /\ arr = data
    /\ orig = data
    /\ op = "from"
    /\ arg = 0
    /\ result = Ret("LinqService")

Init == \E data \in SeqsUpTo(Elems, MaxLen) : From(data)

----------------------------------------------------------------------------
(* Operator calls.  Called(o, a, r): operator o with argument a returned or *)
(* threw r; no operator but the two sorts has a write in it.               *)

Called(o, a, r) ==
    /\ op' = o
    /\ arg' = a
    /\ result' = r
    /\ UNCHANGED orig

Where(predicate) ==
    /\ Called("where", predicate, Ret(where(Data, predicate)))
    /\ UNCHANGED arr

Select(selector) ==
    /\ Called("select", selector, Ret(select(Data, selector)))
    /\ UNCHANGED arr

OrderBy(keySelector) ==
    /\ Called("orderBy", keySelector, Ret(orderBy(Data, keySelector)))
    /\ arr' = dataAfterSort(arr, "asc", keySelector)

OrderByDescending(keySelector) ==
    /\ Called("orderByDescending", keySelector,
              Ret(orderByDescending(Data, keySelector)))
    /\ arr' = dataAfterSort(arr, "desc", keySelector)

First ==
    /\ Called("first", 0, first(Data))
    /\ UNCHANGED arr

FirstOrDefault(defaultValue) ==
    /\ Called("firstOrDefault", defaultValue,
              Ret(firstOrDefault(Data, defaultValue)))
    /\ UNCHANGED arr

Count ==
    /\ Called("count", 0, Ret(count(Data)))
    /\ UNCHANGED arr

Any(predicate) ==
    /\ Called("any", predicate, Ret(any(Data, predicate)))
    /\ UNCHANGED arr

All(predicate) ==
    /\ Called("all", predicate, Ret(all(Data, predicate)))
    /\ UNCHANGED arr

Distinct ==
    /\ Called("distinct", 0, Ret(distinct(Data)))
    /\ UNCHANGED arr

GroupBy(keySelector) ==
    /\ Called("groupBy", keySelector, Ret(groupBy(Data, keySelector)))
    /\ UNCHANGED arr

Average(selector) ==
    /\ Called("average", selector, average(Data, selector))
    /\ UNCHANGED arr

Max(selector) ==
    /\ Called("max", selector, max(Data, selector))
    /\ UNCHANGED arr

Min(selector) ==
    /\ Called("min", selector, min(Data, selector))
    /\ UNCHANGED arr

Sum(selector) ==
    /\ Called("sum", selector, Ret(sum(Data, selector)))
    /\ UNCHANGED arr

Numeric ==
    \/ Count
    \/ \E selector \in Selectors : Average(selector)
    \/ \E selector \in Selectors : Max(selector)
    \/ \E selector \in Selectors : Min(selector)
    \/ \E selector \in Selectors : Sum(selector)

Next ==
    \/ \E predicate \in Predicates : Where(predicate)
    \/ \E selector \in Selectors : Select(selector)
    \/ \E keySelector \in Selectors : OrderBy(keySelector)
    \/ \E keySelector \in Selectors : OrderByDescending(keySelector)
    \/ First
    \/ \E defaultValue \in Elems : FirstOrDefault(defaultValue)
    \/ \E predicate \in Predicates : Any(predicate)
    \/ \E predicate \in Predicates : All(predicate)
    \/ Distinct
    \/ \E keySelector \in Selectors : GroupBy(keySelector)
    \/ Numeric

Spec == Init /\ [][Next]_vars

----------------------------------------------------------------------------
(* The caller keeps its reference to the array it passed to from() and may *)
(* write to it between two operator calls.                                 *)

Written ==
    /\ op' = "write"
    /\ arg' = 0
    /\ result' = Ret("written")
    /\ UNCHANGED orig

CallerPush(v) ==
    /\ Len(arr) < MutMaxLen
    /\ arr' = Append(arr, v)
    /\ Written

CallerPop ==
    /\ Len(arr) > 0
    /\ arr' = SubSeq(arr, 1, Len(arr) - 1)
    /\ Written

CallerStore(i, v) ==
    /\ i \in 1..Len(arr)
    /\ arr[i] # v
    /\ arr' = [arr EXCEPT ![i] = v]
    /\ Written

InitMut == \E data \in SeqsUpTo(0..MutMaxElem, MutMaxLen) : From(data)

NextMut ==
    \/ Next
    \/ \E v \in 0..MutMaxElem : CallerPush(v)
    \/ CallerPop
    \/ \E i \in 1..MutMaxLen, v \in 0..MutMaxElem : CallerStore(i, v)

SpecMut == InitMut /\ [][NextMut]_vars

----------------------------------------------------------------------------
(* The numeric operators on longer sequences *)

InitNum == \E data \in SeqsUpTo(NumElems, NumMaxLen) : From(data)

SpecNum == InitNum /\ [][Numeric]_vars

----------------------------------------------------------------------------
(* Vocabulary of the properties *)

\* what operator o with argument a returns or throws on the sequence d
Eval(o, a, d) ==
    CASE o = "where"             -> Ret(where(d, a))
      [] o = "select"            -> Ret(select(d, a))
      [] o = "orderBy"           -> Ret(orderBy(d, a))
      [] o = "orderByDescending" -> Ret(orderByDescending(d, a))
      [] o = "first"             -> first(d)
      [] o = "firstOrDefault"    -> Ret(firstOrDefault(d, a))
      [] o = "count"             -> Ret(count(d))
      [] o = "any"               -> Ret(any(d, a))
      [] o = "all"               -> Ret(all(d, a))
      [] o = "distinct"          -> Ret(distinct(d))
      [] o = "groupBy"           -> Ret(groupBy(d, a))
      [] o = "average"           -> average(d, a)
      [] o = "max"               -> max(d, a)
      [] o = "min"               -> min(d, a)
      [] o = "sum"               -> Ret(sum(d, a))

Throwing == {"first", "average", "max", "min"}

\* the last step was an operator call
IsCall == op \notin {"from", "write"}

\* the i-th smallest member of a set of numbers
Nth(S, i) == CHOOSE x \in S : Cardinality({y \in S : y <= x}) = i

\* the elements of d at the positions in I, in the order of d
Picked(d, I) == [j \in 1..Cardinality(I) |-> d[Nth(I, j)]]

Positions(d, x) == {i \in 1..Len(d) : d[i] = x}

FirstPosition(d, x) == Nth(Positions(d, x), 1)

Range(d) == {d[i] : i \in 1..Len(d)}

Permutations(n) ==
    {pi \in [1..n -> 1..n] : \A i, j \in 1..n : pi[i] = pi[j] => i = j}

\* r is d reordered by a stable sort: pi[j] is the position in d of the
\* element at position j of r; keys are ordered by Before, and elements
\* with equal keys keep their order of d.
StablySorted(r, d, k, Before(_, _)) ==
    /\ Len(r) = Len(d)
    /\ \E pi \in Permutations(Len(d)) :
          /\ \A j \in 1..Len(d) : r[j] = d[pi[j]]
          /\ \A i, j \in 1..Len(d) :
                i < j =>
                    /\ ~Before(Apply(k, r[j]), Apply(k, r[i]))
                    /\ Apply(k, r[i]) = Apply(k, r[j]) => pi[i] < pi[j]

Less(a, b) == a < b

Greater(a, b) == a > b

KeysDistinct(d, k) ==
    \A i, j \in 1..Len(d) : Apply(k, d[i]) = Apply(k, d[j]) => i = j

WithKey(d, k, v) == Picked(d, {i \in 1..Len(d) : Apply(k, d[i]) = v})

RECURSIVE SumOver(_, _, _)
\* the sum of f(d[i]) over the positions i in I
SumOver(d, f, I) ==
    IF I = {} THEN 0
    ELSE LET i == CHOOSE i \in I : TRUE
         IN  Apply(f, d[i]) + SumOver(d, f, I \ {i})

IsPowerOfTwo(n) == 2^Log2(n) = n

----------------------------------------------------------------------------
(* C1: first, average, max and min throw InvalidOperationException exactly *)
(* when the wrapped sequence is empty; no other operator ever throws.      *)

TheoremC1 ==
    IsCall =>
        /\ result.threw <=> (op \in Throwing /\ Len(arr) = 0)
        /\ result.threw => result = InvalidOperation

WitnessC1 == op = "average" /\ arr = <<>> /\ result.threw

(* C2: where(p) is the subsequence of the elements that satisfy p, in the  *)
(* order of the sequence, with no satisfying element left out.             *)

TheoremC2 ==
    op = "where" =>
        /\ result.val =
              Picked(arr, {i \in 1..Len(arr) : Holds(arg, arr[i])})
        /\ \A j \in 1..Len(result.val) : Holds(arg, result.val[j])
        /\ arr = <<>> => result.val = <<>>

WitnessC2 ==
    /\ op = "where"
    /\ Len(arr) = 3
    /\ Holds(arg, arr[1]) /\ ~Holds(arg, arr[2]) /\ Holds(arg, arr[3])
    /\ result.val = <<arr[1], arr[3]>>

(* C3: orderBy(k) is a permutation of the sequence with non-decreasing     *)
(* keys, and elements with equal keys keep their relative order.           *)

TheoremC3 ==
    op = "orderBy" => StablySorted(result.val, arr, arg, Less)

WitnessC3 ==
    /\ op = "orderBy"
    /\ arg = "mod2"
    /\ arr = <<2, 1, 0>>
    /\ result.val = <<2, 0, 1>>

(* C4: orderByDescending(k) is a permutation with non-increasing keys in   *)
(* which equal keys keep their input order; with pairwise distinct keys it *)
(* is the reverse of orderBy(k), and in general its keys are the reverse   *)
(* of orderBy's keys while the elements of each key are in the same        *)
(* (input) order in both.                                                  *)

TheoremC4 ==
    op = "orderByDescending" =>
        LET asc == orderBy(arr, arg)
        IN  /\ StablySorted(result.val, arr, arg, Greater)
            /\ KeysDistinct(arr, arg) => result.val = Reverse(asc)
            /\ select(result.val, arg) = Reverse(select(asc, arg))
            /\ \A v \in Range(select(arr, arg)) :
                  /\ WithKey(result.val, arg, v) = WithKey(asc, arg, v)
                  /\ WithKey(result.val, arg, v) = WithKey(arr, arg, v)

WitnessC4 ==
    /\ op = "orderByDescending"
    /\ arg = "mod2"
    /\ arr = <<0, 1, 2>>
    /\ result.val = <<1, 0, 2>>
    /\ result.val # Reverse(orderBy(arr, arg))

(* C5: groupBy(k) partitions the sequence: one group per key, in the order *)
(* in which the keys are first met, each group holding exactly the         *)
(* elements of that key in their order of the sequence; no empty group.    *)

TheoremC5 ==
    op = "groupBy" =>
        LET map == result.val
        IN  /\ \A g \in 1..Len(map) :
                  /\ map[g].items # <<>>
                  /\ map[g].items = WithKey(arr, arg, map[g].key)
            /\ \A g, h \in 1..Len(map) :
                  g < h =>
                      /\ map[g].key # map[h].key
                      /\ FirstPosition(select(arr, arg), map[g].key)
                            < FirstPosition(select(arr, arg), map[h].key)
            /\ \A i \in 1..Len(arr) :
                  \E g \in 1..Len(map) : map[g].key = Apply(arg, arr[i])
            /\ arr = <<>> => map = <<>>

WitnessC5 ==
    /\ op = "groupBy"
    /\ arg = "mod2"
    /\ arr = <<2, 1, 0>>
    /\ result.val = << [key |-> 0, items |-> <<2, 0>>],
                       [key |-> 1, items |-> <<1>>] >>

(* C6: distinct() has no two equal elements, holds every value of the      *)
(* sequence, in the order of the values' first occurrences; a sequence     *)
(* without duplicates comes back as it is.                                 *)

TheoremC6 ==
    op = "distinct" =>
        LET r == result.val
        IN  /\ \A i, j \in 1..Len(r) : r[i] = r[j] => i = j
            /\ Range(r) = Range(arr)
            /\ \A i, j \in 1..Len(r) :
                  i < j => FirstPosition(arr, r[i]) < FirstPosition(arr, r[j])
            /\ arr = <<>> => r = <<>>
            /\ Cardinality(Range(arr)) = Len(arr) => r = arr

WitnessC6 ==
    /\ op = "distinct"
    /\ arr = <<1, 0, 1>>
    /\ result.val = <<1, 0>>

(* C7: any(p) is true exactly when some element satisfies p, all(p)        *)
(* exactly when every element does; on the empty sequence any is false and *)
(* all is true; all(p) is the negation of any(not p).                      *)

TheoremC7 ==
    LET sat == {i \in 1..Len(arr) : Holds(arg, arr[i])}
    IN  /\ op = "any" =>
            /\ result.val <=> sat # {}
            /\ arr = <<>> => ~result.val
        /\ op = "all" =>
            /\ result.val <=> Cardinality(sat) = Len(arr)
            /\ arr = <<>> => result.val
            /\ result.val <=> ~any(arr, Not(arg))

WitnessC7 ==
    /\ op = "all"
    /\ Len(arr) = 3
    /\ ~result.val
    /\ any(arr, arg)

(* C8: sum(f) is the sum of f over the elements, 0 on the empty sequence; *)
(* on a non-empty sequence average(f) * count() = sum(f), and min(f) and   *)
(* max(f) are the least and the greatest f(x), each attained.              *)

SumMinMaxRight ==
    LET all_i == 1..Len(arr)
    IN  /\ op = "sum" =>
            /\ result.val = SumOver(arr, arg, all_i)
            /\ arr = <<>> => result.val = 0
        /\ op = "min" /\ arr # <<>> =>
            /\ \A i \in all_i : result.val <= Apply(arg, arr[i])
            /\ \E i \in all_i : result.val = Apply(arg, arr[i])
        /\ op = "max" /\ arr # <<>> =>
            /\ \A i \in all_i : result.val >= Apply(arg, arr[i])
            /\ \E i \in all_i : result.val = Apply(arg, arr[i])

\* C8 as stated: a counterexample is a sequence of 7 elements whose sum is
\* 29, where 29 / 7 rounds and (29 / 7) * 7 is the double next above 29.
OriginalC8 ==
    /\ SumMinMaxRight
    /\ op = "average" /\ arr # <<>> =>
          Times(result.val, count(arr))
              = FromInt(SumOver(arr, arg, 1..Len(arr)))

\* C8 as amended: average(f) * count() = sum(f) is claimed where the
\* quotient is a double: count() divides sum(f), or is a power of two.
TheoremC8 ==
    /\ SumMinMaxRight
    /\ op = "average" /\ arr # <<>> =>
          LET total == SumOver(arr, arg, 1..Len(arr))
          IN  total % Len(arr) = 0 \/ IsPowerOfTwo(Len(arr)) =>
                  Times(result.val, count(arr)) = FromInt(total)

WitnessC8 ==
    /\ op = "average"
    /\ arg = "id"
    /\ arr = <<5, 2, 5>>
    /\ result.val = FromInt(4)

(* C9: no operator call, failing ones included, changes the wrapped        *)
(* sequence, and a call returns what the same call returns on the sequence *)
(* as constructed (so a repeated call returns an equal result).            *)

TheoremC9 ==
    /\ arr = orig
    /\ IsCall => result = Eval(op, arg, orig)

WitnessC9 ==
    /\ op = "orderBy"
    /\ arg = "id"
    /\ orig = <<2, 1, 0>>
    /\ result.val = <<0, 1, 2>>
    /\ arr = <<2, 1, 0>>

(* C10: an operator call returns the result for the contents the array had *)
(* when from() was called, whatever the caller wrote to the array since.   *)

\* C10 as stated
OriginalC10 == IsCall => result = Eval(op, arg, orig)

\* C10 as amended: the wrapper holds the caller's array itself, and a call
\* returns the result for the contents the array has when the call is made
\* (those of construction time if the caller has not written to it).
TheoremC10 ==
    IsCall =>
        /\ result = Eval(op, arg, arr)
        /\ arr = orig => result = Eval(op, arg, orig)

WitnessC10 ==
    /\ IsCall
    /\ op = "count"
    /\ orig = <<1>>
    /\ arr = <<1, 0>>
    /\ result.val = 2

====
